---- MODULE Spec2Model ----
(***************************************************************************)
(* sgfixedincome_pkg: the allocation optimiser get_optimal_allocation,     *)
(* filter_df, best_returns and best_rates of analysis.py, the return       *)
(* equations of equations.py, and the coupon table and the yield warning   *)
(* of mas_api_client.py.                                                   *)
(*                                                                         *)
(* Units.  Deposit amounts are whole dollars.  Rates are in basis points   *)
(* (350 is 3.5 % p.a.).  Growth factors and dollar returns are fixed-point *)
(* numbers with Scale units to the dollar (floats in the program).         *)
(* Tenures are months and multiples of six, so that the exponent           *)
(* tenure / 12 is a whole number of halves.                                *)
(***************************************************************************)
EXTENDS Integers, Sequences, FiniteSets, TLC

VARIABLES
    df,                 \* the caller's catalogue (argument df)
    total_investment,   \* argument total_investment
    target_tenure,      \* argument target_tenure
    pc,                 \* position inside get_optimal_allocation
    fdf,                \* the local, filtered copy of df with investment_id
    prob,               \* the pulp.LpProblem that was built
    status,             \* pulp.LpStatus[prob.status]
    values,             \* solved values of the decision variables
    allocation_records, \* list allocation_records
    total_return,       \* accumulator total_return (unrounded)
    total_allocated,    \* accumulator total_allocated (unrounded)
    summary,            \* summary_dict, <<>> until it is built
    peer,               \* the frame of a second invocation that is not running
    eq,                 \* a call of a function of equations.py and its outcome
    iterations,         \* the work prob.solve() has done so far
    call                \* a call of another function of the package and its outcome

vars == <<df, total_investment, target_tenure, pc, fdf, prob, status, values,
          allocation_records, total_return, total_allocated, summary, peer, eq,
          iterations, call>>

(***************************************************************************)
(* Bounds of the model.                                                    *)
(***************************************************************************)
MaxRows == 2        \* rows of a generated catalogue
MaxBound == 3       \* largest deposit bound of a generated row
MaxInvestment == 3  \* largest generated total_investment

(***************************************************************************)
(* Arithmetic helpers.                                                     *)
(***************************************************************************)
Min(a, b) == IF a <= b THEN a ELSE b

RECURSIVE SumOver(_, _)
\* sum of f[k] for k in S
SumOver(f, S) ==
    IF S = {} THEN 0
    ELSE LET k == CHOOSE e \in S : TRUE IN f[k] + SumOver(f, S \ {k})

RECURSIVE SqrtBetween(_, _, _)
\* the r in lo..hi with r * r <= n < (r + 1) * (r + 1), by bisection
SqrtBetween(n, lo, hi) ==
    IF lo >= hi THEN lo
    ELSE LET mid == (lo + hi + 1) \div 2
         IN  IF mid * mid <= n THEN SqrtBetween(n, mid, hi)
             ELSE SqrtBetween(n, lo, mid - 1)

\* floor of the square root of 0 <= n < 2^31
ISqrt(n) == SqrtBetween(n, 0, 46340)

(***************************************************************************)
(* equations.py                                                            *)
(***************************************************************************)
Percent == 100
MonthsPerYear == 12
\* fixed-point units to the dollar: hundredths of a cent
Scale == Percent * Percent

\* a * b of two fixed-point numbers
MulFP(a, b) == (a * b) \div Scale

RECURSIVE PowHalves(_, _)
\* base ** (halves / 2), all fixed-point
PowHalves(base, halves) ==
    IF halves = 0 THEN Scale
    ELSE IF halves < 0 THEN (Scale * Scale) \div PowHalves(base, 0 - halves)
    ELSE IF halves % 2 = 1
         THEN MulFP(ISqrt(base * Scale), PowHalves(base, halves - 1))
         ELSE MulFP(base, PowHalves(base, halves - 2))

\* (1 + rate / 100) ** (tenure / 12), without the - 1
total_growth(rate, tenure) ==
    PowHalves(Scale + (rate * Scale) \div (Percent * Percent),
              (2 * tenure) \div MonthsPerYear)

\* (1 + rate / 100) ** (tenure / 12) - 1
total_percentage_return(rate, tenure) ==
    PowHalves(Scale + (rate * Scale) \div (Percent * Percent),
              (2 * tenure) \div MonthsPerYear) - Scale

\* calculate_dollar_return(investment, rate, tenure), in 1/Scale dollars
calculate_dollar_return(investment, rate, tenure) ==
    investment * total_percentage_return(rate, tenure)

\* x cut to whole cents, not rounded
truncate2(x) == (x \div (Scale \div Percent)) * (Scale \div Percent)

\* round(x, 2) of a value in 1/Scale dollars: to the nearest cent, ties to even
round2(x) ==
    LET cent == Scale \div Percent
        q == x \div cent
        r == x % cent
    IN  IF 2 * r < cent THEN q * cent
        ELSE IF 2 * r > cent THEN (q + 1) * cent
        ELSE IF q % 2 = 0 THEN q * cent ELSE (q + 1) * cent

\* 12 / tenure in halves, for a tenure that divides 24; tenure is not 0
HalvesOfYearsPer(tenure) ==
    IF tenure > 0 THEN (2 * MonthsPerYear) \div tenure
    ELSE 0 - ((2 * MonthsPerYear) \div (0 - tenure))

\* the rate with the exponent of calculate_dollar_return: tenure / 12
per_annum_rate_not_inverted(total_return_pct, tenure) ==
    ((PowHalves(Scale + (total_return_pct * Scale) \div (Percent * Percent),
                (2 * tenure) \div MonthsPerYear) - Scale)
        * (Percent * Percent)) \div Scale

\* calculate_per_annum_rate(total_percentage_return, tenure), tenure not 0:
\* ((total_percentage_return / 100 + 1) ** (12 / tenure) - 1) * 100, the
\* argument and the result in hundredths of a percent
calculate_per_annum_rate(total_return_pct, tenure) ==
    ((PowHalves(Scale + (total_return_pct * Scale) \div (Percent * Percent),
                HalvesOfYearsPer(tenure)) - Scale)
        * (Percent * Percent)) \div Scale

(***************************************************************************)
(* Catalogue rows.  Required_multiples is {} for a missing value (None,    *)
(* NaN) and {m} for the value m.                                           *)
(***************************************************************************)
Row(provider, product, tenure, rate, lower, upper, multiples) ==
    [Product_provider |-> provider, Product |-> product, Tenure |-> tenure,
     Rate |-> rate, Deposit_lower_bound |-> lower,
     Deposit_upper_bound |-> upper, Required_multiples |-> multiples]

\* provider-product pairs; investment_id of the last two agrees on equal bounds
Pairs == {<<"A", "C">>, <<"A", "B_C">>, <<"A_B", "C">>}
Tenures == {6, 12}
Rates == {300, 350}
\* <<lower bound, upper bound, required multiples>> of a generated row
Shapes == {<<0, 1, {}>>, <<MaxBound - 1, MaxBound, {}>>, <<1, MaxBound, {2}>>}

Rows ==
    {Row(pp[1], pp[2], 6, r, sh[1], sh[2], sh[3]) :
        pp \in Pairs, r \in Rates, sh \in Shapes}
    \cup {Row("A", "C", 12, 350, 0, MaxBound, {})}

Catalogues == UNION {[1..n -> Rows] : n \in 0..MaxRows}

Investments == (0 - 1)..MaxInvestment

NoProblem == [invest |-> {}, objective |-> <<>>, constraints |-> {}]

\* no second invocation
NoPeer == <<>>

\* no call of a function
NoCall == <<>>

Init ==
    /\ df \in Catalogues
    /\ total_investment \in Investments
    /\ target_tenure \in Tenures
    /\ pc = "start"
    /\ fdf = <<>>
    /\ prob = NoProblem
    /\ status = "Not Solved"
    /\ values = <<>>
    /\ allocation_records = <<>>
    /\ total_return = 0
    /\ total_allocated = 0
    /\ summary = <<>>
    /\ peer = NoPeer
    /\ eq = NoCall
    /\ iterations = 0
    /\ call = NoCall

(***************************************************************************)
(* get_optimal_allocation: the tenure filter (398-401).                    *)
(***************************************************************************)
\* the filter the comment of line 397 describes: tenure <= target_tenure
TenureAtMost(row, tenure) == row.Tenure <= tenure

TenureMatches(row, tenure) == row.Tenure = tenure

Filter ==
    /\ pc = "start"
    /\ LET kept == SelectSeq(df, LAMBDA row : TenureMatches(row, target_tenure))
       IN  /\ fdf' = kept
           /\ pc' = IF kept = <<>> THEN "raised_no_options" ELSE "filtered"
    /\ UNCHANGED <<call, iterations, eq, peer, df, total_investment, target_tenure, prob, status, values,
                   allocation_records, total_return, total_allocated, summary>>

(***************************************************************************)
(* get_optimal_allocation: identifiers, variables, objective and           *)
(* constraints (403-463).                                                  *)
(***************************************************************************)
\* the f-string of line 405
investment_id(row) ==
    row.Product_provider \o "_" \o row.Product \o "_"
        \o ToString(row.Deposit_lower_bound) \o "_" \o ToString(row.Deposit_upper_bound)

\* df['investment_id'] = df.apply(...)
WithIds(rows) ==
    [j \in 1..Len(rows) |->
        [Product_provider |-> rows[j].Product_provider, Product |-> rows[j].Product,
         Tenure |-> rows[j].Tenure, Rate |-> rows[j].Rate,
         Deposit_lower_bound |-> rows[j].Deposit_lower_bound,
         Deposit_upper_bound |-> rows[j].Deposit_upper_bound,
         Required_multiples |-> rows[j].Required_multiples,
         investment_id |-> investment_id(rows[j])]]

\* keys of the dicts investment_vars and range_selection (418-420)
VarKeys(rows) == {rows[j].investment_id : j \in 1..Len(rows)}

\* indices of the rows whose investment_id is id
RowsWithId(rows, id) == {j \in 1..Len(rows) : rows[j].investment_id = id}

\* objective: lpSum of investment_vars[inv_id] * return_per_dollar, one term a row (423-430)
Objective(rows, tenure) ==
    [id \in VarKeys(rows) |->
        SumOver([j \in RowsWithId(rows, id) |->
                    calculate_dollar_return(1, rows[j].Rate, tenure)],
                RowsWithId(rows, id))]

\* the budget as a strict bound on whole dollars: the sum is below total
BudgetConstraintStrict(rows, total) == [type |-> "budget", rhs |-> total - 1]

\* constraint 1 (433)
BudgetConstraint(rows, total) == [type |-> "budget", rhs |-> total]

\* df[['Product provider', 'Product']].drop_duplicates() (436)
ProviderProducts(rows) ==
    {<<rows[j].Product_provider, rows[j].Product>> : j \in 1..Len(rows)}

\* relevant_rows (437-440)
RelevantRows(rows, pp) ==
    {j \in 1..Len(rows) : rows[j].Product_provider = pp[1] /\ rows[j].Product = pp[2]}

\* the uniqueness constraint with only the first row of the pair in the sum
OneRangeFirstRowOnly(rows, pp) ==
    LET rel == RelevantRows(rows, pp)
        first == CHOOSE j \in rel : \A k \in rel : j <= k
    IN  [type |-> "one_range", coef |-> [id \in {rows[first].investment_id} |-> 1]]

\* lpSum(range_selection[inv_id] for inv_id in relevant_ids) <= 1 (446): a term a row
OneRangeConstraint(rows, pp) ==
    LET rel == RelevantRows(rows, pp)
        ids == {rows[j].investment_id : j \in rel}
    IN  [type |-> "one_range",
         coef |-> [id \in ids |-> Cardinality({j \in rel : rows[j].investment_id = id})]]

\* row = df[df['investment_id'] == inv_id].iloc[0] (450)
FirstRowWithId(rows, id) ==
    rows[CHOOSE j \in RowsWithId(rows, id) : \A k \in RowsWithId(rows, id) : j <= k]

\* the upper link with the bound taken as exclusive
UpperLinkExclusive(rows, id) ==
    [type |-> "upper", id |-> id,
     bound |-> FirstRowWithId(rows, id).Deposit_upper_bound + 1]

\* investment_vars[inv_id] <= upper * range_selection[inv_id] (454)
UpperLink(rows, id) ==
    [type |-> "upper", id |-> id, bound |-> FirstRowWithId(rows, id).Deposit_upper_bound]

\* the lower link with the bound left out
LowerLinkUnbounded(rows, id) == [type |-> "lower", id |-> id, bound |-> 0]

\* investment_vars[inv_id] >= lower * range_selection[inv_id] (455)
LowerLink(rows, id) ==
    [type |-> "lower", id |-> id, bound |-> FirstRowWithId(rows, id).Deposit_lower_bound]

\* pd.notna(row['Required multiples']) and row['Required multiples'] > 0 (461)
HasMultiple(row) == \E m \in row.Required_multiples : m > 0

\* the multiple constraint without the factor: investment_vars[inv_id] == multiple
MultipleConstraintUnscaled(rows, j) ==
    [type |-> "multiple", id |-> rows[j].investment_id, row |-> j, m |-> 1]

\* investment_vars[inv_id] == multiple * m, multiple a fresh integer variable (462-463)
MultipleConstraint(rows, j) ==
    [type |-> "multiple", id |-> rows[j].investment_id, row |-> j,
     m |-> CHOOSE m \in rows[j].Required_multiples : TRUE]

Constraints(rows, total) ==
    {BudgetConstraint(rows, total)}
    \cup {OneRangeConstraint(rows, pp) : pp \in ProviderProducts(rows)}
    \cup {UpperLink(rows, id) : id \in VarKeys(rows)}
    \cup {LowerLink(rows, id) : id \in VarKeys(rows)}
    \cup {MultipleConstraint(rows, j) : j \in {k \in 1..Len(rows) : HasMultiple(rows[k])}}

\* 403-463 on the caller's table instead of the copy of 398: the filtered
\* rows and the investment_id column are written to df
BuildInPlace ==
    /\ pc = "filtered"
    /\ LET rows == WithIds(fdf)
       IN  /\ fdf' = rows
           /\ df' = rows
           /\ prob' = [invest |-> VarKeys(rows),
                       objective |-> Objective(rows, target_tenure),
                       constraints |-> Constraints(rows, total_investment)]
    /\ pc' = "built"
    /\ UNCHANGED <<call, iterations, eq, peer, total_investment, target_tenure, status,
                   values, allocation_records, total_return, total_allocated, summary>>

Build ==
    /\ pc = "filtered"
    /\ LET rows == WithIds(fdf)
       IN  /\ fdf' = rows
           /\ prob' = [invest |-> VarKeys(rows),
                       objective |-> Objective(rows, target_tenure),
                       constraints |-> Constraints(rows, total_investment)]
    /\ pc' = "built"
    /\ UNCHANGED <<call, iterations, eq, peer, df, total_investment, target_tenure, status, values,
                   allocation_records, total_return, total_allocated, summary>>

(***************************************************************************)
(* prob.solve() (466).  The solver is CBC behind PuLP: it ends "Optimal"   *)
(* with some assignment that satisfies every constraint and maximises the  *)
(* objective, or "Infeasible" when no assignment satisfies them.  Amounts  *)
(* are searched on whole dollars: every amount up to MaxInvestment, and    *)
(* above it the amounts a basic solution takes (a bound, a multiple, the   *)
(* budget, or for one variable the budget left by the others).             *)
(***************************************************************************)
LinksOf(p, id, type) == {c \in p.constraints : c.type = type /\ c.id = id}

MultiplesOf(p, id) == {c \in p.constraints : c.type = "multiple" /\ c.id = id}

Budget(p) == (CHOOSE c \in p.constraints : c.type = "budget").rhs

\* what the constraints on one variable alone leave of S: the selection being
\* 0 or 1, an upper link leaves 0 and the amounts between the linked bounds
OwnFeasible(p, id, S) ==
    {v \in S :
        /\ v >= 0
        /\ v <= Budget(p)
        /\ \A c \in MultiplesOf(p, id) : v % c.m = 0
        /\ \A u \in LinksOf(p, id, "upper") :
              \/ v <= 0
              \/ /\ v <= u.bound
                 /\ \A l \in LinksOf(p, id, "lower") : v >= l.bound}

BaseAmounts(p, id) ==
    OwnFeasible(p, id,
        (0..Min(Budget(p), MaxInvestment))
        \cup {Budget(p)}
        \cup {c.bound : c \in LinksOf(p, id, "upper") \cup LinksOf(p, id, "lower")}
        \cup UNION {{k * c.m : k \in 0..(Budget(p) \div c.m)} : c \in MultiplesOf(p, id)})

RECURSIVE Assignments(_, _)
\* the functions f on keys with f[k] \in cand[k]
Assignments(cand, keys) ==
    IF keys = {} THEN {<<>>}
    ELSE LET k == CHOOSE e \in keys : TRUE
         IN  {(k :> v) @@ f : v \in cand[k], f \in Assignments(cand, keys \ {k})}

\* the amounts searched: base amounts, and one variable taking what is left
AmountAssignments(p) ==
    LET base == Assignments([id \in p.invest |-> BaseAmounts(p, id)], p.invest)
        rest(x, r) == Budget(p) - (SumOver(x, p.invest) - x[r])
    IN  base \cup
        UNION {{[x EXCEPT ![r] = v] : v \in OwnFeasible(p, r, {rest(x, r)})} :
                    x \in base, r \in p.invest}

\* the value of the integer variable of a multiple constraint, given the amounts
MultipleValue(c, invest) == invest[c.id] \div c.m

\* an assignment of all the variables: amounts, selections and multiple counts
Assignment(p, x, s) ==
    LET mults == {c \in p.constraints : c.type = "multiple"}
    IN  [invest |-> x, select |-> s,
         multiple |-> [j \in {c.row : c \in mults} |->
                          MultipleValue(CHOOSE c \in mults : c.row = j, x)]]

Holds(c, v) ==
    CASE c.type = "budget" -> SumOver(v.invest, DOMAIN v.invest) <= c.rhs
      [] c.type = "one_range" ->
            SumOver([id \in DOMAIN c.coef |-> c.coef[id] * v.select[id]], DOMAIN c.coef) <= 1
      [] c.type = "upper" -> v.invest[c.id] <= c.bound * v.select[c.id]
      [] c.type = "lower" -> v.invest[c.id] >= c.bound * v.select[c.id]
      [] c.type = "multiple" -> v.invest[c.id] = v.multiple[c.row] * c.m

\* the candidate assignments that satisfy every constraint; the constraints on
\* the amounts alone are evaluated before the selections are enumerated
Feasible(p) ==
    LET unselected == [id \in p.invest |-> 0]
        onAmounts == {c \in p.constraints : c.type \in {"budget", "multiple"}}
        amounts == {x \in AmountAssignments(p) :
                        \A c \in onAmounts : Holds(c, Assignment(p, x, unselected))}
    IN  UNION {{v \in {Assignment(p, x, s) : s \in [p.invest -> {0, 1}]} :
                    \A c \in p.constraints \ onAmounts : Holds(c, v)} : x \in amounts}

ObjectiveValue(p, v) ==
    SumOver([id \in p.invest |-> p.objective[id] * v.invest[id]], p.invest)

\* the feasible assignments of the smallest objective value (LpMinimize)
Worst(p, feasible) ==
    LET scores == {ObjectiveValue(p, v) : v \in feasible}
        worst == CHOOSE b \in scores : \A o \in scores : b <= o
    IN  {v \in feasible : ObjectiveValue(p, v) = worst}

\* every feasible assignment, whatever its objective value
AnyFeasible(p, feasible) == feasible

\* the feasible assignments of the largest objective value
Best(p, feasible) ==
    LET scores == {ObjectiveValue(p, v) : v \in feasible}
        best == CHOOSE b \in scores : \A o \in scores : o <= b
    IN  {v \in feasible : ObjectiveValue(p, v) = best}

\* 466 without the test of 468: extraction follows whatever the status is
SolveUnchecked ==
    /\ pc = "built"
    /\ LET feasible == Feasible(prob)
       IN  IF feasible = {}
           THEN /\ status' = "Infeasible"
                /\ values' = Assignment(prob, [id \in prob.invest |-> 0],
                                        [id \in prob.invest |-> 0])
           ELSE /\ status' = "Optimal"
                /\ \E v \in Best(prob, feasible) : values' = v
    /\ pc' = "solved"
    /\ UNCHANGED <<call, iterations, eq, peer, df, total_investment, target_tenure, fdf, prob,
                   allocation_records, total_return, total_allocated, summary>>

\* 466-469: solve, and raise ValueError unless the status is Optimal
Solve ==
    /\ pc = "built"
    /\ LET feasible == Feasible(prob)
       IN  IF feasible = {}
           THEN /\ status' = "Infeasible"
                /\ pc' = "raised_failed"
                /\ UNCHANGED values
           ELSE /\ status' = "Optimal"
                /\ pc' = "solved"
                /\ \E v \in Best(prob, feasible) : values' = v
    /\ UNCHANGED <<call, iterations, eq, peer, df, total_investment, target_tenure, fdf, prob,
                   allocation_records, total_return, total_allocated, summary>>

(***************************************************************************)
(* Result extraction (471-496) and the summary (498-506).                  *)
(***************************************************************************)
\* the test of 481 as amount >= 0
NotNegative(amount) == amount >= 0

\* amount > 1e-6, amounts being whole dollars
AboveTolerance(amount) == amount > 0

\* the record with the return as computed, not rounded
AllocationRecordUnrounded(row, amount, tenure) ==
    [Provider |-> row.Product_provider,
     Product |-> row.Product,
     Allocated_Amount |-> amount,
     Return |-> calculate_dollar_return(amount, row.Rate, tenure),
     Rate |-> row.Rate,
     Tenure |-> tenure,
     Deposit_lower_bound |-> row.Deposit_lower_bound,
     Deposit_upper_bound |-> row.Deposit_upper_bound]

\* 484-493
AllocationRecord(row, amount, tenure) ==
    [Provider |-> row.Product_provider,
     Product |-> row.Product,
     Allocated_Amount |-> amount,
     Return |-> round2(calculate_dollar_return(amount, row.Rate, tenure)),
     Rate |-> row.Rate,
     Tenure |-> tenure,
     Deposit_lower_bound |-> row.Deposit_lower_bound,
     Deposit_upper_bound |-> row.Deposit_upper_bound]

\* the rows the loop of 476-496 records, in catalogue order
RecordedRows(rows, solved) ==
    SelectSeq([j \in 1..Len(rows) |-> j],
              LAMBDA j : AboveTolerance(solved.invest[rows[j].investment_id]))

\* 471-506: the loop over the rows, then the summary
Extract ==
    /\ pc = "solved"
    /\ LET kept == RecordedRows(fdf, values)
           amount == [k \in 1..Len(kept) |-> values.invest[fdf[kept[k]].investment_id]]
           return_amount ==
               [k \in 1..Len(kept) |->
                   calculate_dollar_return(amount[k], fdf[kept[k]].Rate, target_tenure)]
           returned == SumOver(return_amount, 1..Len(kept))
           allocated == SumOver(amount, 1..Len(kept))
       IN  /\ allocation_records' =
                [k \in 1..Len(kept) |->
                    AllocationRecord(fdf[kept[k]], amount[k], target_tenure)]
           /\ total_return' = returned
           /\ total_allocated' = allocated
           /\ summary' = [total_return |-> round2(returned),
                          total_allocated |-> allocated,
                          unallocated |-> total_investment - allocated]
    /\ pc' = "done"
    /\ UNCHANGED <<call, iterations, eq, peer, df, total_investment, target_tenure, fdf, prob, status, values>>

(***************************************************************************)
(* The scenario of the specification: two brackets of one product and a    *)
(* product with a required multiple, at investments around the brackets.   *)
(***************************************************************************)
ScenarioRows ==
    {Row("ProviderA", "ProductX", 6, 300, 1000, 9999, {}),
     Row("ProviderA", "ProductX", 6, 350, 10000, 50000, {}),
     Row("ProviderB", "ProductY", 6, 250, 0, 200000, {500})}

\* the scenario catalogue in every row order
ScenarioCatalogues ==
    {c \in [1..Cardinality(ScenarioRows) -> ScenarioRows] :
        {c[j] : j \in DOMAIN c} = ScenarioRows}

ScenarioInvestments ==
    {0 - 1, 0, 400, 500, 999, 1000, 1250, 5000, 9999, 10000, 10500, 12000}

ScenarioInit ==
    /\ df \in ScenarioCatalogues
    /\ total_investment \in ScenarioInvestments
    /\ target_tenure \in Tenures
    /\ pc = "start"
    /\ fdf = <<>>
    /\ prob = NoProblem
    /\ status = "Not Solved"
    /\ values = <<>>
    /\ allocation_records = <<>>
    /\ total_return = 0
    /\ total_allocated = 0
    /\ summary = <<>>
    /\ peer = NoPeer
    /\ eq = NoCall
    /\ iterations = 0
    /\ call = NoCall

Next ==
    \/ Filter
    \/ Build
    \/ Solve
    \/ Extract

Spec == Init /\ [][Next]_vars

ScenarioSpec == ScenarioInit /\ [][Next]_vars

\* the generated catalogues and the scenario together
AllInputsSpec == (Init \/ ScenarioInit) /\ [][Next]_vars

(***************************************************************************)
(* Two invocations.  Every name of get_optimal_allocation is a local of    *)
(* the invocation (df is rebound to a copy at 398), so an invocation is a  *)
(* frame of the arguments and locals; the module keeps nothing else.  One  *)
(* frame runs, the other waits in peer, and a switch at any point between  *)
(* two steps gives every interleaving, the two calls one after the other   *)
(* included.                                                               *)
(***************************************************************************)
\* the frame of an invocation at its entry
EntryFrame(catalogue, investment, tenure) ==
    [df |-> catalogue, total_investment |-> investment, target_tenure |-> tenure,
     pc |-> "start", fdf |-> <<>>, prob |-> NoProblem, status |-> "Not Solved",
     values |-> <<>>, allocation_records |-> <<>>, total_return |-> 0,
     total_allocated |-> 0, summary |-> <<>>]

\* the frame of the running invocation
Frame ==
    [df |-> df, total_investment |-> total_investment, target_tenure |-> target_tenure,
     pc |-> pc, fdf |-> fdf, prob |-> prob, status |-> status, values |-> values,
     allocation_records |-> allocation_records, total_return |-> total_return,
     total_allocated |-> total_allocated, summary |-> summary]

\* the catalogues of the two callers: none, one row, two brackets of a pair,
\* a multiple beside a plain row, a row of another tenure, two rows of one
\* investment_id
CallerCatalogues ==
    {<<>>,
     <<Row("A", "C", 6, 300, 0, 1, {})>>,
     <<Row("A", "C", 6, 300, 0, 1, {}), Row("A", "C", 6, 350, MaxBound - 1, MaxBound, {})>>,
     <<Row("A", "B_C", 6, 300, 1, MaxBound, {2}), Row("A_B", "C", 6, 350, 0, 1, {})>>,
     <<Row("A", "C", 12, 350, 0, MaxBound, {}), Row("A", "C", 6, 350, 0, 1, {})>>,
     <<Row("A", "B_C", 6, 300, 0, 1, {}), Row("A_B", "C", 6, 350, 0, 1, {})>>}

CallersInit ==
    /\ df \in CallerCatalogues
    /\ total_investment \in Investments
    /\ target_tenure \in Tenures
    /\ pc = "start"
    /\ fdf = <<>>
    /\ prob = NoProblem
    /\ status = "Not Solved"
    /\ values = <<>>
    /\ allocation_records = <<>>
    /\ total_return = 0
    /\ total_allocated = 0
    /\ summary = <<>>
    /\ \E catalogue \in CallerCatalogues, investment \in Investments, tenure \in Tenures :
          peer = EntryFrame(catalogue, investment, tenure)
    /\ eq = NoCall
    /\ iterations = 0
    /\ call = NoCall

\* a switch that leaves the summary where it is: one summary_dict for both
\* invocations
SwitchSharingSummary ==
    /\ peer # NoPeer
    /\ peer' = Frame
    /\ df' = peer.df
    /\ total_investment' = peer.total_investment
    /\ target_tenure' = peer.target_tenure
    /\ pc' = peer.pc
    /\ fdf' = peer.fdf
    /\ prob' = peer.prob
    /\ status' = peer.status
    /\ values' = peer.values
    /\ allocation_records' = peer.allocation_records
    /\ total_return' = peer.total_return
    /\ total_allocated' = peer.total_allocated
    /\ UNCHANGED <<summary, eq, iterations, call>>

\* a switch that leaves the records where they are: one allocation_records
\* list for both invocations
SwitchSharingRecords ==
    /\ peer # NoPeer
    /\ peer' = Frame
    /\ df' = peer.df
    /\ total_investment' = peer.total_investment
    /\ target_tenure' = peer.target_tenure
    /\ pc' = peer.pc
    /\ fdf' = peer.fdf
    /\ prob' = peer.prob
    /\ status' = peer.status
    /\ values' = peer.values
    /\ total_return' = peer.total_return
    /\ total_allocated' = peer.total_allocated
    /\ summary' = peer.summary
    /\ UNCHANGED <<allocation_records, eq, iterations, call>>

\* the running invocation is suspended and the other one runs: each has its
\* own arguments and locals
Switch ==
    /\ peer # NoPeer
    /\ peer' = Frame
    /\ df' = peer.df
    /\ total_investment' = peer.total_investment
    /\ target_tenure' = peer.target_tenure
    /\ pc' = peer.pc
    /\ fdf' = peer.fdf
    /\ prob' = peer.prob
    /\ status' = peer.status
    /\ values' = peer.values
    /\ allocation_records' = peer.allocation_records
    /\ total_return' = peer.total_return
    /\ total_allocated' = peer.total_allocated
    /\ summary' = peer.summary
    /\ UNCHANGED <<eq, iterations, call>>

CallersNext ==
    \/ Filter
    \/ Build
    \/ Solve
    \/ Extract
    \/ Switch

CallersSpec == CallersInit /\ [][CallersNext]_vars

(***************************************************************************)
(* Calls of equations.py.  Neither function tests its arguments or rounds  *)
(* its result (14-15, 29); 12 / tenure raises ZeroDivisionError when       *)
(* tenure is 0.                                                            *)
(***************************************************************************)
EquationInvestments == {0 - 1000, 0, 1, 1000, 5000}
EquationRates == {0 - 100, 0, 150, 300}
EquationTenures == {0 - 12, 0 - 6, 0, 6, 12, 24}
\* total percentage returns, in hundredths of a percent
EquationReturns == {0 - 100, 0, 310, 609}

DollarReturnCalls ==
    {[fn |-> "calculate_dollar_return", investment |-> x, rate |-> r, tenure |-> t,
      pc |-> "called", result |-> 0] :
        x \in EquationInvestments, r \in EquationRates, t \in EquationTenures}

PerAnnumRateCalls ==
    {[fn |-> "calculate_per_annum_rate", total_percentage_return |-> x, tenure |-> t,
      pc |-> "called", result |-> 0] :
        x \in EquationReturns, t \in EquationTenures}

EquationsInit ==
    /\ eq \in DollarReturnCalls \cup PerAnnumRateCalls
    /\ df = <<>>
    /\ total_investment = 0
    /\ target_tenure = 0
    /\ pc = "idle"
    /\ fdf = <<>>
    /\ prob = NoProblem
    /\ status = "Not Solved"
    /\ values = <<>>
    /\ allocation_records = <<>>
    /\ total_return = 0
    /\ total_allocated = 0
    /\ summary = <<>>
    /\ peer = NoPeer
    /\ iterations = 0
    /\ call = NoCall

\* equations.py 14-15
DollarReturnCall ==
    /\ eq # NoCall
    /\ eq.fn = "calculate_dollar_return"
    /\ eq.pc = "called"
    /\ eq' = [eq EXCEPT !.pc = "returned",
                        !.result = calculate_dollar_return(eq.investment, eq.rate, eq.tenure)]
    /\ UNCHANGED <<call, iterations, peer, df, total_investment, target_tenure, pc, fdf, prob, status,
                   values, allocation_records, total_return, total_allocated, summary>>

\* equations.py 29
PerAnnumRateCall ==
    /\ eq # NoCall
    /\ eq.fn = "calculate_per_annum_rate"
    /\ eq.pc = "called"
    /\ eq' = IF eq.tenure = 0
             THEN [eq EXCEPT !.pc = "raised_ZeroDivisionError"]
             ELSE [eq EXCEPT !.pc = "returned",
                             !.result = calculate_per_annum_rate(
                                            eq.total_percentage_return, eq.tenure)]
    /\ UNCHANGED <<call, iterations, peer, df, total_investment, target_tenure, pc, fdf, prob, status,
                   values, allocation_records, total_return, total_allocated, summary>>

EquationsNext ==
    \/ DollarReturnCall
    \/ PerAnnumRateCall

EquationsSpec == EquationsInit /\ [][EquationsNext]_vars

(***************************************************************************)
(* The run of the solver.  prob.solve() (466) is called with no argument:  *)
(* PuLP's default solver runs with no time limit and no iteration limit,   *)
(* for as long as its search takes.  iterations counts that work.          *)
(***************************************************************************)
MaxIterations == 2  \* solver steps the model follows

\* the cap handed to prob.solve(): {} for none, {n} for a cap of n
timeLimit == {}

\* rows of the solver runs; two of them have the lower bound above the upper
SolverRows ==
    {Row("A", "C", 6, 300, 0, 1, {}),
     Row("A", "C", 6, 350, MaxBound, 1, {}),
     Row("A", "B_C", 6, 300, 1, MaxBound, {2}),
     Row("B", "D", 6, 350, MaxBound - 1, MaxBound, {}),
     Row("B", "D", 6, 350, MaxBound, MaxBound - 1, {2}),
     Row("A", "C", 12, 350, 0, MaxBound, {})}

SolverCatalogues == UNION {[1..n -> SolverRows] : n \in 0..MaxRows}

SolverInit ==
    /\ df \in SolverCatalogues
    /\ total_investment \in Investments
    /\ target_tenure \in Tenures
    /\ pc = "start"
    /\ fdf = <<>>
    /\ prob = NoProblem
    /\ status = "Not Solved"
    /\ values = <<>>
    /\ allocation_records = <<>>
    /\ total_return = 0
    /\ total_allocated = 0
    /\ summary = <<>>
    /\ peer = NoPeer
    /\ eq = NoCall
    /\ iterations = 0
    /\ call = NoCall

\* one more step of the search inside prob.solve(); a cap would end it
SolveStep ==
    /\ pc = "built"
    /\ iterations < MaxIterations
    /\ \A cap \in timeLimit : iterations < cap
    /\ iterations' = iterations + 1
    /\ UNCHANGED <<call, eq, peer, df, total_investment, target_tenure, pc, fdf, prob,
                   status, values, allocation_records, total_return, total_allocated,
                   summary>>

SolverNext ==
    \/ Filter
    \/ Build
    \/ SolveStep
    \/ Solve
    \/ Extract

SolverSpec == SolverInit /\ [][SolverNext]_vars

(***************************************************************************)
(* analysis.py: filter_df (8-66), best_returns (68-132) and best_rates     *)
(* (134-166).  A missing argument (None) is {} and a given one {v}; a      *)
(* provider list is the set of its names, None and [] both being {}.       *)
(***************************************************************************)
\* Series.str.contains(kind, case=False, na=False) on the product names of
\* the catalogues below
str_contains(product, kind) ==
    \/ product \in {"Fixed Deposit", "fixed deposit plus"} /\ kind = "Fixed Deposit"
    \/ product = "T-bill BS24124Z" /\ kind = "T-bill"
    \/ product = "SSB GX25010E" /\ kind = "SSB"

\* the amount test with the upper bound left out
AboveLowerBound(row, amount) == row.Deposit_lower_bound <= amount

\* 34-36
WithinDepositBounds(row, amount) ==
    /\ row.Deposit_lower_bound <= amount
    /\ row.Deposit_upper_bound >= amount

\* 39-40
TenureWithin(row, min_tenure, max_tenure) ==
    /\ row.Tenure >= min_tenure
    /\ row.Tenure <= max_tenure

\* 43-44
RateAtLeast(row, min_rate) == row.Rate >= min_rate

\* 31-60: the filters in the order of the code; the result of 66 when it is
\* not empty
filter_df(combined_df, investment_amount, min_tenure, max_tenure, min_rate, consider_tbills, consider_ssbs, consider_fd, include_providers, exclude_providers) ==
    LET by_amount ==
            SelectSeq(combined_df,
                      LAMBDA row : \A a \in investment_amount : WithinDepositBounds(row, a))
        by_tenure ==
            SelectSeq(by_amount, LAMBDA row : TenureWithin(row, min_tenure, max_tenure))
        by_rate ==
            SelectSeq(by_tenure, LAMBDA row : \A r \in min_rate : RateAtLeast(row, r))
        no_tbills ==
            IF consider_tbills THEN by_rate
            ELSE SelectSeq(by_rate, LAMBDA row : ~str_contains(row.Product, "T-bill"))
        no_ssbs ==
            IF consider_ssbs THEN no_tbills
            ELSE SelectSeq(no_tbills, LAMBDA row : ~str_contains(row.Product, "SSB"))
        no_fd ==
            IF consider_fd THEN no_ssbs
            ELSE SelectSeq(no_ssbs, LAMBDA row : ~str_contains(row.Product, "Fixed Deposit"))
        included ==
            IF include_providers = {} THEN no_fd
            ELSE SelectSeq(no_fd, LAMBDA row : row.Product_provider \in include_providers)
    IN  IF exclude_providers = {} THEN included
        ELSE SelectSeq(included, LAMBDA row : row.Product_provider \notin exclude_providers)

\* the multiple rounded up instead of down
invested_amount_rounded_up(row, investment_amount) ==
    IF row.Required_multiples = {} THEN investment_amount
    ELSE LET multiples == CHOOSE m \in row.Required_multiples : TRUE
         IN  ((investment_amount + multiples - 1) \div multiples) * multiples

\* 106-110; investment_amount is not negative and multiples is positive
calculate_invested_amount(row, investment_amount) ==
    IF row.Required_multiples = {} THEN investment_amount
    ELSE LET multiples == CHOOSE m \in row.Required_multiples : TRUE
             max_multiple == investment_amount \div multiples
         IN  max_multiple * multiples

\* 112-124: the columns 'Invested amount' and 'Total Dollar Return'
WithReturns(rows, investment_amount) ==
    [j \in 1..Len(rows) |->
        LET invested == calculate_invested_amount(rows[j], investment_amount)
        IN  [Product_provider |-> rows[j].Product_provider, Product |-> rows[j].Product,
             Tenure |-> rows[j].Tenure, Rate |-> rows[j].Rate,
             Deposit_lower_bound |-> rows[j].Deposit_lower_bound,
             Deposit_upper_bound |-> rows[j].Deposit_upper_bound,
             Required_multiples |-> rows[j].Required_multiples,
             Invested_amount |-> invested,
             Total_Dollar_Return |->
                 calculate_dollar_return(invested, rows[j].Rate, rows[j].Tenure)]]

\* the keys of groupby('Tenure'), ascending
GroupTenures(rows) ==
    LET keys == {rows[j].Tenure : j \in 1..Len(rows)}
    IN  CHOOSE s \in [1..Cardinality(keys) -> keys] :
            \A i, j \in 1..Cardinality(keys) : i < j => s[i] < s[j]

\* the first row of the tenure with the smallest value of the column
idxmin(rows, column, tenure) ==
    LET group == {j \in 1..Len(rows) : rows[j].Tenure = tenure}
        least == {j \in group : \A k \in group : rows[k][column] >= rows[j][column]}
    IN  CHOOSE j \in least : \A k \in least : j <= k

\* groupby('Tenure')[column].idxmax() at one tenure: the first row of the
\* largest value
idxmax(rows, column, tenure) ==
    LET group == {j \in 1..Len(rows) : rows[j].Tenure = tenure}
        largest == {j \in group : \A k \in group : rows[k][column] <= rows[j][column]}
    IN  CHOOSE j \in largest : \A k \in largest : j <= k

\* 127-132 and 161-166: .loc[idxmax], sorted by tenure
BestPerTenure(rows, column) ==
    LET tenures == GroupTenures(rows)
    IN  [k \in 1..Len(tenures) |-> rows[idxmax(rows, column, tenures[k])]]

\* 94-132, given that filter_df returned
best_returns(combined_df, investment_amount, min_tenure, max_tenure) ==
    LET valid_inv_df ==
            filter_df(combined_df, {investment_amount}, min_tenure, max_tenure, {},
                      TRUE, TRUE, TRUE, {}, {})
    IN  BestPerTenure(WithReturns(valid_inv_df, investment_amount), "Total_Dollar_Return")

\* 153-166, given that filter_df returned
best_rates(combined_df, investment_amount, min_tenure, max_tenure) ==
    LET valid_inv_df ==
            filter_df(combined_df, {investment_amount}, min_tenure, max_tenure, {},
                      TRUE, TRUE, TRUE, {}, {})
    IN  BestPerTenure(valid_inv_df, "Rate")

\* rows of the catalogues of these calls: the three product kinds, a product
\* name in lower case, and a row whose multiple does not divide its bounds
LibraryRows ==
    {Row("DBS", "Fixed Deposit", 6, 300, 1, MaxBound, {}),
     Row("UOB", "fixed deposit plus", 12, 350, 0, 1, {}),
     Row("MAS", "T-bill BS24124Z", 6, 350, 1, MaxBound, {2}),
     Row("MAS", "SSB GX25010E", 12, 300, MaxBound - 1, MaxBound, {}),
     Row("DBS", "Fixed Deposit", 6, 350, MaxBound, MaxBound, {2})}

LibraryCatalogues == UNION {[1..n -> LibraryRows] : n \in 0..MaxRows}

\* <<min_tenure, max_tenure>>: the defaults, and a range that leaves a tenure out
DefaultTenureRange == <<0, 999>>
TenureRanges == {DefaultTenureRange, <<12, 999>>, <<0, 6>>}

\* <<consider_tbills, consider_ssbs, consider_fd>>: all kinds, one kind left
\* out, and no kind
ProductSwitches ==
    {<<TRUE, TRUE, TRUE>>, <<FALSE, TRUE, TRUE>>, <<TRUE, FALSE, TRUE>>,
     <<TRUE, TRUE, FALSE>>, <<FALSE, FALSE, FALSE>>}

\* <<include_providers, exclude_providers>>
ProviderLists == {<<{}, {}>>, <<{"DBS", "UOB"}, {}>>, <<{}, {"DBS"}>>}

FilterDfCalls ==
    {[fn |-> "filter_df", combined_df |-> c, investment_amount |-> a,
      min_tenure |-> t[1], max_tenure |-> t[2], min_rate |-> r,
      consider_tbills |-> kinds[1], consider_ssbs |-> kinds[2], consider_fd |-> kinds[3],
      include_providers |-> lists[1], exclude_providers |-> lists[2],
      pc |-> "called", result |-> <<>>] :
        c \in LibraryCatalogues,
        a \in {{}} \cup {{x} : x \in 0..MaxInvestment},
        t \in TenureRanges,
        r \in {{}, {350}},
        kinds \in ProductSwitches,
        lists \in ProviderLists}

BestCalls(fn) ==
    {[fn |-> fn, combined_df |-> c, investment_amount |-> a,
      min_tenure |-> t[1], max_tenure |-> t[2], pc |-> "called", result |-> <<>>] :
        c \in LibraryCatalogues, a \in Investments, t \in TenureRanges}

\* 31-66
FilterDfCall ==
    /\ call # NoCall
    /\ call.fn = "filter_df"
    /\ call.pc = "called"
    /\ LET filtered_df ==
               filter_df(call.combined_df, call.investment_amount, call.min_tenure,
                         call.max_tenure, call.min_rate, call.consider_tbills,
                         call.consider_ssbs, call.consider_fd, call.include_providers,
                         call.exclude_providers)
       IN  call' = IF filtered_df = <<>>
                   THEN [call EXCEPT !.pc = "raised_ValueError"]
                   ELSE [call EXCEPT !.pc = "returned", !.result = filtered_df]
    /\ UNCHANGED <<iterations, eq, peer, df, total_investment, target_tenure, pc, fdf,
                   prob, status, values, allocation_records, total_return,
                   total_allocated, summary>>

\* the ValueError of filter_df (63-64) inside best_returns and best_rates
NoneEligible(c) ==
    filter_df(c.combined_df, {c.investment_amount}, c.min_tenure, c.max_tenure, {},
              TRUE, TRUE, TRUE, {}, {}) = <<>>

\* 94-132
BestReturnsCall ==
    /\ call # NoCall
    /\ call.fn = "best_returns"
    /\ call.pc = "called"
    /\ call' = IF NoneEligible(call)
               THEN [call EXCEPT !.pc = "raised_ValueError"]
               ELSE [call EXCEPT !.pc = "returned",
                                 !.result = best_returns(call.combined_df,
                                                call.investment_amount,
                                                call.min_tenure, call.max_tenure)]
    /\ UNCHANGED <<iterations, eq, peer, df, total_investment, target_tenure, pc, fdf,
                   prob, status, values, allocation_records, total_return,
                   total_allocated, summary>>

\* 153-166
BestRatesCall ==
    /\ call # NoCall
    /\ call.fn = "best_rates"
    /\ call.pc = "called"
    /\ call' = IF NoneEligible(call)
               THEN [call EXCEPT !.pc = "raised_ValueError"]
               ELSE [call EXCEPT !.pc = "returned",
                                 !.result = best_rates(call.combined_df,
                                                call.investment_amount,
                                                call.min_tenure, call.max_tenure)]
    /\ UNCHANGED <<iterations, eq, peer, df, total_investment, target_tenure, pc, fdf,
                   prob, status, values, allocation_records, total_return,
                   total_allocated, summary>>

(***************************************************************************)
(* mas_api_client.py: calculate_ssb_tenure_rates (84-111) and              *)
(* sudden_6m_tbill_yield_change_warning (164-196).  Coupons, rates and     *)
(* yields are in hundredths of a percent, which are basis points.          *)
(***************************************************************************)
SsbMonths == 120

Abs(x) == IF x >= 0 THEN x ELSE 0 - x

RECURSIVE PowCapped(_, _, _)
\* x ** n of a fixed-point x >= 1, or some number above cap when the power
\* is above cap
PowCapped(x, n, cap) ==
    IF n = 0 THEN Scale
    ELSE LET half == PowCapped(x, n \div 2, cap)
             square == MulFP(half, half)
         IN  IF half > cap THEN half
             ELSE IF n % 2 = 0 \/ square > cap THEN square
             ELSE MulFP(square, x)

RECURSIVE RootBetween(_, _, _, _)
\* the largest r in lo..hi with r ** n <= x, by bisection
RootBetween(x, n, lo, hi) ==
    IF lo >= hi THEN lo
    ELSE LET mid == (lo + hi + 1) \div 2
         IN  IF PowCapped(mid, n, x) <= x THEN RootBetween(x, n, mid, hi)
             ELSE RootBetween(x, n, lo, mid - 1)

\* the largest growth in a year that the fixed point holds: 300 %
GrowthCap == (1 + 3) * Scale

\* equations.calculate_per_annum_rate (29) at any tenure of 1..120 months and
\* a total return that is not negative: the root of order tenure, then the
\* power 12, to the resolution of the fixed point
per_annum_rate_of_months(total_return_pct, tenure) ==
    LET growth == Scale + (total_return_pct * Scale) \div (Percent * Percent)
        root == RootBetween(growth, tenure, Scale, growth)
    IN  ((PowCapped(root, MonthsPerYear, GrowthCap) - Scale) * (Percent * Percent))
            \div Scale

\* sum(coupons[:n_years]): a slice past the end of the list is the whole list
SumOfFirst(coupons, n_years) ==
    SumOver(coupons, 1..Min(n_years, Len(coupons)))

\* coupons[n_years] of 105 does not exist: IndexError
CouponMissing(coupons, tenure) ==
    /\ tenure % MonthsPerYear # 0
    /\ tenure \div MonthsPerYear >= Len(coupons)

\* 98-105
SsbTotalReturn(coupons, tenure) ==
    LET n_years == tenure \div MonthsPerYear
        month_of_yr == tenure % MonthsPerYear
    IN  IF month_of_yr = 0 THEN SumOfFirst(coupons, n_years)
        ELSE SumOfFirst(coupons, n_years)
                + (coupons[n_years + 1] * month_of_yr) \div MonthsPerYear

\* 95-111, when no coupon is missing
calculate_ssb_tenure_rates(coupons) ==
    [tenure \in 1..SsbMonths |->
        [Tenure |-> tenure,
         Rate |-> per_annum_rate_of_months(SsbTotalReturn(coupons, tenure), tenure)]]

\* the coupons of issue GX25010E
IssueCoupons == <<273, 282, 282, 282, 282, 285, 290, 295, 299, 301>>

\* that list, three and nine coupons of it, eleven coupons, ten coupons that
\* fall at the end, and no coupon
SsbCouponLists ==
    {IssueCoupons,
     SubSeq(IssueCoupons, 1, 3),
     SubSeq(IssueCoupons, 1, Len(IssueCoupons) - 1),
     Append(IssueCoupons, 305),
     <<270, 270, 270, 280, 280, 280, 290, 290, 290, 100>>,
     <<>>}

SsbCalls ==
    {[fn |-> "calculate_ssb_tenure_rates", coupons |-> c, pc |-> "called",
      result |-> <<>>] : c \in SsbCouponLists}

\* 95-111
SsbTenureRatesCall ==
    /\ call # NoCall
    /\ call.fn = "calculate_ssb_tenure_rates"
    /\ call.pc = "called"
    /\ call' = IF \E tenure \in 1..SsbMonths : CouponMissing(call.coupons, tenure)
               THEN [call EXCEPT !.pc = "raised_IndexError"]
               ELSE [call EXCEPT !.pc = "returned",
                                 !.result = calculate_ssb_tenure_rates(call.coupons)]
    /\ UNCHANGED <<iterations, eq, peer, df, total_investment, target_tenure, pc, fdf,
                   prob, status, values, allocation_records, total_return,
                   total_allocated, summary>>

\* bid yields, cutoff yields and thresholds
BidYields == {325, 330, 335, 345, 350, 365}
CutoffYields == {350, 352, 355}
Thresholds == {10, 15, 20, 25}

YieldWarningCalls ==
    {[fn |-> "sudden_6m_tbill_yield_change_warning", bid_yield |-> b,
      cutoff_yield |-> c, threshold |-> th, pc |-> "called", warnings |-> <<>>] :
        b \in BidYields, c \in CutoffYields, th \in Thresholds}

\* 188: abs(bid_yield - cutoff_yield) * 100, in basis points
yield_difference(bid_yield, cutoff_yield) == Abs(bid_yield - cutoff_yield)

\* 181-196: bid_yield and cutoff_yield are what the two requests returned
YieldWarningCall ==
    /\ call # NoCall
    /\ call.fn = "sudden_6m_tbill_yield_change_warning"
    /\ call.pc = "called"
    /\ call' = [call EXCEPT
                  !.pc = "returned",
                  !.warnings =
                      IF yield_difference(call.bid_yield, call.cutoff_yield)
                            >= call.threshold
                      THEN <<"The difference between the bid yield and the cutoff yield is large">>
                      ELSE <<>>]
    /\ UNCHANGED <<iterations, eq, peer, df, total_investment, target_tenure, pc, fdf,
                   prob, status, values, allocation_records, total_return,
                   total_allocated, summary>>

\* a call of one of the five functions at its entry; the optimiser is idle
LibraryInit ==
    /\ call \in FilterDfCalls \cup BestCalls("best_returns") \cup BestCalls("best_rates")
                    \cup SsbCalls \cup YieldWarningCalls
    /\ df = <<>>
    /\ total_investment = 0
    /\ target_tenure = 0
    /\ pc = "idle"
    /\ fdf = <<>>
    /\ prob = NoProblem
    /\ status = "Not Solved"
    /\ values = <<>>
    /\ allocation_records = <<>>
    /\ total_return = 0
    /\ total_allocated = 0
    /\ summary = <<>>
    /\ peer = NoPeer
    /\ eq = NoCall
    /\ iterations = 0

LibraryNext ==
    \/ FilterDfCall
    \/ BestReturnsCall
    \/ BestRatesCall
    \/ SsbTenureRatesCall
    \/ YieldWarningCall

LibrarySpec == LibraryInit /\ [][LibraryNext]_vars

(***************************************************************************)
(* One catalogue handed to get_optimal_allocation and to a call of         *)
(* filter_df, best_returns or best_rates, with one investment amount.      *)
(***************************************************************************)
\* the calls on the catalogue c with the amount a: the tenure range left at
\* its default or set to the tenure t alone
AnalysisCalls(c, a, t) ==
    {[fn |-> fn, combined_df |-> c, investment_amount |-> a,
      min_tenure |-> range[1], max_tenure |-> range[2], pc |-> "called",
      result |-> <<>>] :
        fn \in {"best_returns", "best_rates"}, range \in {DefaultTenureRange, <<t, t>>}}
    \cup
    {[fn |-> "filter_df", combined_df |-> c, investment_amount |-> {a},
      min_tenure |-> t, max_tenure |-> t, min_rate |-> {},
      consider_tbills |-> FALSE, consider_ssbs |-> TRUE, consider_fd |-> TRUE,
      include_providers |-> {}, exclude_providers |-> {},
      pc |-> "called", result |-> <<>>]}

AnalysisInit ==
    /\ df \in LibraryCatalogues
    /\ total_investment \in Investments
    /\ target_tenure \in Tenures
    /\ pc = "start"
    /\ fdf = <<>>
    /\ prob = NoProblem
    /\ status = "Not Solved"
    /\ values = <<>>
    /\ allocation_records = <<>>
    /\ total_return = 0
    /\ total_allocated = 0
    /\ summary = <<>>
    /\ peer = NoPeer
    /\ eq = NoCall
    /\ iterations = 0
    /\ call \in AnalysisCalls(df, total_investment, target_tenure)

AnalysisNext ==
    \/ Filter
    \/ Build
    \/ Solve
    \/ Extract
    \/ FilterDfCall
    \/ BestReturnsCall
    \/ BestRatesCall

AnalysisSpec == AnalysisInit /\ [][AnalysisNext]_vars

(***************************************************************************)
(* The allocation problem as the documentation states it, on the rows of   *)
(* the caller's catalogue: one amount a row.                               *)
(***************************************************************************)
MatchingRows == {j \in DOMAIN df : df[j].Tenure = target_tenure}

\* an amount a row may hold: nothing, or an amount inside its bracket that is
\* a multiple of its required multiple
RowAllows(row, amount) ==
    \/ amount = 0
    \/ /\ row.Deposit_lower_bound <= amount
       /\ amount <= row.Deposit_upper_bound
       /\ \A m \in row.Required_multiples : m > 0 => amount % m = 0

SamePair(r1, r2) ==
    r1.Product_provider = r2.Product_provider /\ r1.Product = r2.Product

\* the allocations of the budget to the matching rows that respect the budget,
\* one bracket for each provider-product pair, the bounds and the multiples
Allocations ==
    {a \in [MatchingRows -> 0..(IF total_investment < 0 THEN 0 ELSE total_investment)] :
        /\ SumOver(a, MatchingRows) <= total_investment
        /\ \A j \in MatchingRows : RowAllows(df[j], a[j])
        /\ \A j, k \in MatchingRows :
              (j # k /\ SamePair(df[j], df[k])) => (a[j] = 0 \/ a[k] = 0)}

\* sum_i x_i * r_i
DollarReturn(a) ==
    SumOver([j \in MatchingRows |->
                a[j] * calculate_dollar_return(1, df[j].Rate, target_tenure)],
            MatchingRows)

\* the rows that produced the allocation records, in order
SourceRows == RecordedRows(fdf, values)

\* C1: the total return of a returned plan is the largest dollar return of any
\* allocation that respects the budget, the one-bracket rule, the deposit
\* bounds and the required multiples.
C1_TotalReturnIsMaximal ==
    (pc = "done" /\ total_investment >= 0) =>
        /\ \E a \in Allocations : DollarReturn(a) = total_return
        /\ \A a \in Allocations : DollarReturn(a) <= total_return

\* C2: the total allocated of a returned plan is at most total_investment, and
\* unallocated is not negative.
C2_WithinBudget ==
    pc = "done" =>
        /\ summary.total_allocated <= total_investment
        /\ summary.unallocated >= 0

\* C3: no two allocation records of a returned plan have the same provider
\* and product.
C3_OneRecordPerPair ==
    pc = "done" =>
        \A j, k \in DOMAIN allocation_records :
            (/\ allocation_records[j].Provider = allocation_records[k].Provider
             /\ allocation_records[j].Product = allocation_records[k].Product) => j = k

\* a plan with a record for a pair that has a second matching row of another
\* bracket, where the budget covers an amount in each of the two brackets
C3_Witness ==
    /\ pc = "done"
    /\ \E j, k \in DOMAIN fdf, n \in DOMAIN allocation_records :
          /\ j # k
          /\ SamePair(fdf[j], fdf[k])
          /\ fdf[j].investment_id # fdf[k].investment_id
          /\ allocation_records[n].Provider = fdf[j].Product_provider
          /\ allocation_records[n].Product = fdf[j].Product
          /\ \E aj, ak \in 1..total_investment :
                /\ RowAllows(fdf[j], aj)
                /\ RowAllows(fdf[k], ak)
                /\ aj + ak <= total_investment

\* C4: the amount of every allocation record lies inside the deposit bounds of
\* the row it comes from, and a row whose range is not selected gets zero.
C4_AmountsInsideBounds ==
    pc \in {"solved", "done"} =>
        /\ \A n \in DOMAIN allocation_records :
              LET row == fdf[SourceRows[n]]
              IN  /\ row.Deposit_lower_bound <= allocation_records[n].Allocated_Amount
                  /\ allocation_records[n].Allocated_Amount <= row.Deposit_upper_bound
        /\ \A j \in DOMAIN fdf :
              values.select[fdf[j].investment_id] = 0 =>
                  values.invest[fdf[j].investment_id] = 0

\* a plan with a record that sits on a positive lower bound while another row
\* is not selected
C4_Witness ==
    /\ pc = "done"
    /\ \E n \in DOMAIN allocation_records :
          /\ allocation_records[n].Deposit_lower_bound > 0
          /\ allocation_records[n].Allocated_Amount = allocation_records[n].Deposit_lower_bound
    /\ \E j \in DOMAIN fdf : values.select[fdf[j].investment_id] = 0

\* C5: the amount of every allocation record whose row declares a required
\* multiple m is a non-negative whole multiple of m.
C5_AmountsAreMultiples ==
    pc = "done" =>
        \A n \in DOMAIN allocation_records :
            \A m \in fdf[SourceRows[n]].Required_multiples :
                /\ allocation_records[n].Allocated_Amount >= 0
                /\ allocation_records[n].Allocated_Amount % m = 0

\* a plan with a record of a row that declares a required multiple, with a
\* budget that is not itself a multiple
C5_Witness ==
    /\ pc = "done"
    /\ \E n \in DOMAIN allocation_records :
          \E m \in fdf[SourceRows[n]].Required_multiples : total_investment % m # 0

Distance(a, b) == IF a >= b THEN a - b ELSE b - a

\* half a cent, the error of rounding to 2 decimals
HalfCent == Scale \div (2 * Percent)

\* C7: in the scenario with total_investment = 10000 and target_tenure = 6 the
\* plan is the single record of the 10000-50000 bracket of ProductX with
\* amount 10000; total_allocated = 10000, unallocated = 0 and total_return is
\* dollar_return(10000, 3.5, 6) to the cent.
C7_ScenarioTenThousand ==
    (pc = "done" /\ total_investment = 10000 /\ target_tenure = 6) =>
        /\ Len(allocation_records) = 1
        /\ allocation_records[1].Provider = "ProviderA"
        /\ allocation_records[1].Product = "ProductX"
        /\ allocation_records[1].Deposit_lower_bound = 10000
        /\ allocation_records[1].Deposit_upper_bound = 50000
        /\ allocation_records[1].Rate = 350
        /\ allocation_records[1].Allocated_Amount = 10000
        /\ summary.total_allocated = 10000
        /\ summary.unallocated = 0
        /\ Distance(summary.total_return, calculate_dollar_return(10000, 350, 6)) <= HalfCent

C7_Witness ==
    /\ df \in ScenarioCatalogues
    /\ pc = "done"
    /\ total_investment = 10000
    /\ target_tenure = 6
    /\ summary.total_return > 0

\* C8: in the scenario with total_investment = 5000 and target_tenure = 6 the
\* whole 5000 goes to the 1000-9999 bracket of ProductX at 3.0 %, and nothing
\* to ProductY or to the 10000-50000 bracket.
C8_ScenarioFiveThousand ==
    (pc = "done" /\ total_investment = 5000 /\ target_tenure = 6) =>
        /\ Len(allocation_records) = 1
        /\ allocation_records[1].Provider = "ProviderA"
        /\ allocation_records[1].Product = "ProductX"
        /\ allocation_records[1].Deposit_lower_bound = 1000
        /\ allocation_records[1].Deposit_upper_bound = 9999
        /\ allocation_records[1].Rate = 300
        /\ allocation_records[1].Allocated_Amount = 5000
        /\ \A j \in DOMAIN fdf :
              fdf[j].Rate # 300 => values.invest[fdf[j].investment_id] = 0

C8_Witness ==
    /\ df \in ScenarioCatalogues
    /\ pc = "done"
    /\ total_investment = 5000
    /\ target_tenure = 6
    /\ summary.total_allocated = 5000

\* the budget is positive and below the lower bound or the required multiple
\* of every matching row
TooSmall ==
    /\ total_investment > 0
    /\ MatchingRows # {}
    /\ \A j \in MatchingRows :
          \/ total_investment < df[j].Deposit_lower_bound
          \/ \E m \in df[j].Required_multiples : total_investment < m

C10_NoPlanUnlessOptimal ==
    /\ (pc \in {"solved", "done"} \/ allocation_records # <<>> \/ summary # <<>>) =>
          status = "Optimal"
    /\ (pc \notin {"start", "filtered", "built", "raised_no_options"}
            /\ status # "Optimal") =>
          /\ pc = "raised_failed"
          /\ allocation_records = <<>>
          /\ summary = <<>>
          /\ ~ENABLED Extract

\* the solve of a problem that no assignment satisfies has raised
C10_Witness ==
    /\ pc = "raised_failed"
    /\ status = "Infeasible"
    /\ prob.invest # {}

(***************************************************************************)
(* The records and the summary against the solved amounts (471-506).       *)
(***************************************************************************)
\* the solved amount of row j of the caller's catalogue
SolvedAmount(j) == values.invest[investment_id(df[j])]

\* the matching rows of the caller's catalogue with a solved amount above the
\* tolerance
AllocatedRows == {j \in MatchingRows : SolvedAmount(j) > 0}

\* the n-th row of AllocatedRows in catalogue order
NthAllocatedRow(n) ==
    CHOOSE j \in AllocatedRows : Cardinality({k \in AllocatedRows : k <= j}) = n

\* C11: the table has exactly one record for each matching row whose solved
\* amount is above the tolerance, in catalogue order, and none for any other
\* row; the Return of a record is the dollar return of the solved amount at
\* the row's own Rate and target_tenure, and amount and return are rounded to
\* 2 decimals.
C11_RecordsOfPositiveAmounts ==
    pc = "done" =>
        /\ Len(allocation_records) = Cardinality(AllocatedRows)
        /\ \A n \in DOMAIN allocation_records :
              LET row == df[NthAllocatedRow(n)]
                  amount == SolvedAmount(NthAllocatedRow(n))
                  rec == allocation_records[n]
              IN  /\ rec.Provider = row.Product_provider
                  /\ rec.Product = row.Product
                  /\ rec.Rate = row.Rate
                  /\ rec.Tenure = target_tenure
                  /\ rec.Allocated_Amount * Scale = round2(amount * Scale)
                  /\ rec.Return =
                        round2(calculate_dollar_return(amount, row.Rate, target_tenure))

\* a plan with a record whose unrounded return is not a whole number of cents,
\* for a catalogue with a matching row that gets no record
C11_Witness ==
    /\ pc = "done"
    /\ \E j \in MatchingRows : j \notin AllocatedRows
    /\ \E n \in DOMAIN allocation_records :
          LET j == NthAllocatedRow(n)
              unrounded == calculate_dollar_return(SolvedAmount(j), df[j].Rate, target_tenure)
          IN  unrounded # round2(unrounded)

\* one cent
Cent == Scale \div Percent

\* r is x rounded to 2 decimals: a whole number of cents, half a cent from x
\* at most
RoundedOnce(r, x) == r % Cent = 0 /\ Distance(r, x) <= HalfCent

\* the unrounded sums over the rows that got a record
UnroundedAllocated == SumOver([j \in AllocatedRows |-> SolvedAmount(j)], AllocatedRows)

UnroundedReturn ==
    SumOver([j \in AllocatedRows |->
                calculate_dollar_return(SolvedAmount(j), df[j].Rate, target_tenure)],
            AllocatedRows)

\* the sum of the returns as the records report them
ReportedReturns ==
    SumOver([n \in DOMAIN allocation_records |-> allocation_records[n].Return],
            DOMAIN allocation_records)

\* total_allocated, total_return and unallocated are the unrounded sums over
\* the emitted records, each rounded once
SummaryIsRoundedSums ==
    /\ summary.total_allocated = UnroundedAllocated
    /\ RoundedOnce(summary.total_return, UnroundedReturn)
    /\ summary.unallocated = total_investment - UnroundedAllocated

BothReturned == peer # NoPeer /\ pc = "done" /\ peer.pc = "done"

\* the two invocations got the same catalogue and target_tenure
SameCatalogueAndTenure == df = peer.df /\ target_tenure = peer.target_tenure

\* C13: for one catalogue and target_tenure, total_return does not decrease
\* when total_investment grows: of two calls that return a plan, the one with
\* the smaller total_investment has the smaller or the same total_return.
C13_ReturnMonotoneInInvestment ==
    (BothReturned /\ SameCatalogueAndTenure
        /\ total_investment <= peer.total_investment) =>
        summary.total_return <= peer.summary.total_return

\* two plans for one catalogue where the larger investment earns more and
\* leaves part of it unallocated
C13_Witness ==
    /\ BothReturned
    /\ SameCatalogueAndTenure
    /\ total_investment < peer.total_investment
    /\ summary.total_return < peer.summary.total_return
    /\ peer.summary.unallocated > 0

(***************************************************************************)
(* The functions of equations.py.                                          *)
(***************************************************************************)
\* a call of fn has ended, by a return or by an exception
Ended(fn) == eq # NoCall /\ eq.fn = fn /\ eq.pc # "called"

\* C14: calculate_dollar_return raises ValueError and returns no value
\* whenever investment < 0, rate < 0 or tenure <= 0.
C14_DollarReturnRejectsInvalid ==
    (Ended("calculate_dollar_return")
        /\ (eq.investment < 0 \/ eq.rate < 0 \/ eq.tenure <= 0)) =>
        eq.pc = "raised_ValueError"

\* C15: calculate_per_annum_rate raises ValueError and returns no value
\* whenever tenure <= 0, for tenure = 0 and for a negative tenure.
C15_PerAnnumRateRejectsInvalid ==
    (Ended("calculate_per_annum_rate") /\ eq.tenure <= 0) =>
        eq.pc = "raised_ValueError"

\* a call of calculate_dollar_return with valid arguments has returned
ValidDollarReturn ==
    /\ Ended("calculate_dollar_return")
    /\ eq.investment >= 0
    /\ eq.rate >= 0
    /\ eq.tenure > 0

\* C16: for investment >= 0, rate >= 0 and tenure > 0 calculate_dollar_return
\* returns a value that is not negative, and exactly 0 when investment = 0 or
\* rate = 0; calculate_per_annum_rate(0, tenure) is exactly 0 for tenure > 0.
C16_ReturnsNotNegativeAndZero ==
    /\ ValidDollarReturn =>
          /\ eq.pc = "returned"
          /\ eq.result >= 0
          /\ (eq.investment = 0 \/ eq.rate = 0) => eq.result = 0
    /\ (Ended("calculate_per_annum_rate")
            /\ eq.total_percentage_return = 0 /\ eq.tenure > 0) =>
          /\ eq.pc = "returned"
          /\ eq.result = 0

\* a positive investment at rate 0 over half a year has returned 0
C16_Witness ==
    /\ ValidDollarReturn
    /\ eq.investment > 0
    /\ eq.rate = 0
    /\ eq.tenure = 6
    /\ eq.result = 0

\* two units of the last place of the fixed-point numbers, in hundredths of a
\* percent: what the square root and the product lose
RateTolerance == 2 * ((Percent * Percent) \div Scale)

\* d / investment * 100, in hundredths of a percent, d in 1/Scale dollars
ReturnInPercent(d, investment) == ((d \div investment) * (Percent * Percent)) \div Scale

\* C17: for investment > 0, rate >= 0 and tenure > 0, with
\* d = calculate_dollar_return(investment, rate, tenure),
\* calculate_per_annum_rate(d / investment * 100, tenure) is rate within the
\* tolerance.
C17_PerAnnumRateInvertsDollarReturn ==
    (ValidDollarReturn /\ eq.investment > 0) =>
        Distance(calculate_per_annum_rate(ReturnInPercent(eq.result, eq.investment),
                                          eq.tenure),
                 eq.rate) <= RateTolerance

\* a return over half a year, of a positive rate, whose per-annum rate is not
\* the rate to the last place
C17_Witness ==
    /\ ValidDollarReturn
    /\ eq.investment > 0
    /\ eq.rate > 0
    /\ eq.tenure = 6
    /\ eq.result > 0
    /\ calculate_per_annum_rate(ReturnInPercent(eq.result, eq.investment), eq.tenure)
          # eq.rate

\* C18: the result of calculate_dollar_return is rounded to 2 decimals: a
\* whole number of cents.  (The rates of the model are hundredths of a percent,
\* so a result of calculate_per_annum_rate has no further decimals to show.)
C18_DollarReturnInWholeCents ==
    ValidDollarReturn => eq.result % Cent = 0

(***************************************************************************)
(* What one invocation returns when it runs alone, as a function of its    *)
(* arguments: the steps of 398-506 in sequence.                            *)
(***************************************************************************)
\* 410-463
ProblemOf(rows, investment, tenure) ==
    [invest |-> VarKeys(rows),
     objective |-> Objective(rows, tenure),
     constraints |-> Constraints(rows, investment)]

\* 471-506 for the solved values
PlanOf(rows, solved, investment, tenure) ==
    LET kept == RecordedRows(rows, solved)
        amount == [k \in 1..Len(kept) |-> solved.invest[rows[kept[k]].investment_id]]
        return_amount ==
            [k \in 1..Len(kept) |->
                calculate_dollar_return(amount[k], rows[kept[k]].Rate, tenure)]
        allocated == SumOver(amount, 1..Len(kept))
    IN  [pc |-> "done",
         allocation_records |->
            [k \in 1..Len(kept) |-> AllocationRecord(rows[kept[k]], amount[k], tenure)],
         summary |-> [total_return |-> round2(SumOver(return_amount, 1..Len(kept))),
                      total_allocated |-> allocated,
                      unallocated |-> investment - allocated]]

\* an invocation that raised
Raised(error) == [pc |-> error, allocation_records |-> <<>>, summary |-> <<>>]

\* the results get_optimal_allocation(catalogue, investment, tenure) can end
\* with: one for each optimal assignment the solver may return
Outcomes(catalogue, investment, tenure) ==
    LET kept == SelectSeq(catalogue, LAMBDA row : TenureMatches(row, tenure))
        rows == WithIds(kept)
        p == ProblemOf(rows, investment, tenure)
        feasible == Feasible(p)
    IN  IF kept = <<>> THEN {Raised("raised_no_options")}
        ELSE IF feasible = {} THEN {Raised("raised_failed")}
        ELSE {PlanOf(rows, v, investment, tenure) : v \in Best(p, feasible)}

\* the invocation of frame f has ended
EndedFrame(f) == f.pc \in {"done", "raised_no_options", "raised_failed"}

\* what the invocation of frame f ended with
ResultOf(f) ==
    [pc |-> f.pc, allocation_records |-> f.allocation_records, summary |-> f.summary]

C20_ConcurrentCallsDoNotInterfere ==
    peer # NoPeer =>
        /\ EndedFrame(Frame) =>
              ResultOf(Frame) \in Outcomes(df, total_investment, target_tenure)
        /\ EndedFrame(peer) =>
              ResultOf(peer) \in
                  Outcomes(peer.df, peer.total_investment, peer.target_tenure)

\* one invocation has returned a plan while the other, with another catalogue,
\* is between its solve and its extraction
C20_Witness ==
    /\ peer # NoPeer
    /\ pc = "done"
    /\ allocation_records # <<>>
    /\ peer.pc = "solved"
    /\ peer.df # df
    /\ peer.values.invest # values.invest
(***************************************************************************)
(* C21.  The solve step runs under a time or iteration cap: while          *)
(* prob.solve() is at work there is a cap, and the work done has not       *)
(* passed it (past the cap the call has failed, it is not still solving).  *)
(***************************************************************************)
C21_SolveRunsUnderCap ==
    pc = "built" => \E cap \in timeLimit : iterations <= cap

\* a call of fn that has returned or raised
CallEnded(fn) == call # NoCall /\ call.fn = fn /\ call.pc # "called"

\* the row meets every criterion the call c of filter_df was given
Satisfies(row, c) ==
    /\ \A a \in c.investment_amount :
          row.Deposit_lower_bound <= a /\ a <= row.Deposit_upper_bound
    /\ c.min_tenure <= row.Tenure
    /\ row.Tenure <= c.max_tenure
    /\ \A r \in c.min_rate : row.Rate >= r
    /\ c.consider_tbills \/ ~str_contains(row.Product, "T-bill")
    /\ c.consider_ssbs \/ ~str_contains(row.Product, "SSB")
    /\ c.consider_fd \/ ~str_contains(row.Product, "Fixed Deposit")
    /\ c.include_providers = {} \/ row.Product_provider \in c.include_providers
    /\ row.Product_provider \notin c.exclude_providers

(***************************************************************************)
(* C22.  filter_df returns exactly the rows of its input that satisfy      *)
(* every criterion it was given, in the order of the input, and never an   *)
(* empty table: it raises ValueError when no row satisfies them.           *)
(***************************************************************************)
C22_FilterKeepsExactlyTheMatchingRows ==
    CallEnded("filter_df") =>
        LET matching == SelectSeq(call.combined_df, LAMBDA row : Satisfies(row, call))
        IN  IF matching = <<>>
            THEN call.pc = "raised_ValueError"
            ELSE call.pc = "returned" /\ call.result = matching

\* filter_df returned some rows of a catalogue and left others out, on an
\* amount, a minimum rate, a switch that is off and a provider list
C22_Witness ==
    /\ CallEnded("filter_df")
    /\ call.pc = "returned"
    /\ Len(call.result) < Len(call.combined_df)
    /\ call.investment_amount # {}
    /\ \E row \in {call.combined_df[j] : j \in 1..Len(call.combined_df)} :
          \E a \in call.investment_amount : a > row.Deposit_upper_bound
    /\ ~call.consider_ssbs
    /\ call.exclude_providers # {}

\* the rows of the call's catalogue that the call may choose from: tenure in
\* the range and bounds around the investment amount
EligibleRows(c) ==
    {j \in 1..Len(c.combined_df) :
        /\ c.min_tenure <= c.combined_df[j].Tenure
        /\ c.combined_df[j].Tenure <= c.max_tenure
        /\ c.combined_df[j].Deposit_lower_bound <= c.investment_amount
        /\ c.investment_amount <= c.combined_df[j].Deposit_upper_bound}

\* what best_returns invests in a row: the amount, or the largest multiple of
\* the required multiple that is not above it
InvestedIn(row, amount) ==
    IF row.Required_multiples = {} THEN amount
    ELSE CHOOSE v \in 0..amount :
            \E m \in row.Required_multiples : v % m = 0 /\ v + m > amount

\* row r of a result is row j of the catalogue, with or without more columns
IsRowOf(r, c, j) ==
    \A field \in DOMAIN c.combined_df[j] : r[field] = c.combined_df[j][field]

\* a result has one row a tenure with an eligible row, by ascending tenure
OneRowPerEligibleTenure(c) ==
    /\ \A i, k \in 1..Len(c.result) : i < k => c.result[i].Tenure < c.result[k].Tenure
    /\ {c.result[i].Tenure : i \in 1..Len(c.result)}
            = {c.combined_df[j].Tenure : j \in EligibleRows(c)}

(***************************************************************************)
(* C23.  best_returns returns one row for each tenure that has an eligible *)
(* row, by ascending tenure.  The row is an eligible row of its tenure,    *)
(* its Invested amount is the investment amount or the largest multiple of *)
(* the required multiple not above it, its return is the dollar return of  *)
(* that amount and no eligible row of the tenure returns more; the         *)
(* invested amount is at most the investment amount and the return is not  *)
(* negative.  With no eligible row the call raises ValueError.             *)
(***************************************************************************)
C23_BestReturnsPicksLargestReturn ==
    CallEnded("best_returns") =>
        IF EligibleRows(call) = {}
        THEN call.pc = "raised_ValueError"
        ELSE /\ call.pc = "returned"
             /\ OneRowPerEligibleTenure(call)
             /\ \A i \in 1..Len(call.result) :
                   LET r == call.result[i]
                       same == {j \in EligibleRows(call) :
                                   call.combined_df[j].Tenure = r.Tenure}
                   IN  /\ \E j \in same : IsRowOf(r, call, j)
                       /\ r.Invested_amount = InvestedIn(r, call.investment_amount)
                       /\ r.Invested_amount <= call.investment_amount
                       /\ r.Total_Dollar_Return
                            = r.Invested_amount * total_percentage_return(r.Rate, r.Tenure)
                       /\ r.Total_Dollar_Return >= 0
                       /\ \A j \in same :
                             InvestedIn(call.combined_df[j], call.investment_amount)
                                * total_percentage_return(call.combined_df[j].Rate, r.Tenure)
                               <= r.Total_Dollar_Return

\* best_returns chose between two eligible rows of one tenure, and the row of
\* the higher rate lost because its required multiple left a dollar out
C23_Witness ==
    /\ CallEnded("best_returns")
    /\ call.pc = "returned"
    /\ \E j, k \in EligibleRows(call) :
          /\ call.combined_df[j].Tenure = call.combined_df[k].Tenure
          /\ call.combined_df[j].Rate > call.combined_df[k].Rate
          /\ InvestedIn(call.combined_df[j], call.investment_amount) < call.investment_amount
          /\ \E i \in 1..Len(call.result) : IsRowOf(call.result[i], call, k)
          /\ \A i \in 1..Len(call.result) : ~IsRowOf(call.result[i], call, j)

(***************************************************************************)
(* C24.  best_rates returns one row for each tenure that has an eligible   *)
(* row, by ascending tenure; the row is an eligible row of its tenure and  *)
(* its Rate is the largest Rate of the eligible rows of that tenure.  With *)
(* no eligible row the call raises ValueError.                             *)
(***************************************************************************)
C24_BestRatesPicksLargestRate ==
    CallEnded("best_rates") =>
        IF EligibleRows(call) = {}
        THEN call.pc = "raised_ValueError"
        ELSE /\ call.pc = "returned"
             /\ OneRowPerEligibleTenure(call)
             /\ \A i \in 1..Len(call.result) :
                   LET r == call.result[i]
                       same == {j \in EligibleRows(call) :
                                   call.combined_df[j].Tenure = r.Tenure}
                   IN  /\ \E j \in same : r = call.combined_df[j]
                       /\ \A j \in same : call.combined_df[j].Rate <= r.Rate

\* best_rates chose between two eligible rows of one tenure and returned
\* the later one, of the higher rate
C24_Witness ==
    /\ CallEnded("best_rates")
    /\ call.pc = "returned"
    /\ \E j, k \in EligibleRows(call) :
          /\ call.combined_df[j].Tenure = call.combined_df[k].Tenure
          /\ call.combined_df[j].Rate > call.combined_df[k].Rate
          /\ k < j
          /\ call.result = <<call.combined_df[j]>>

\* a coupon list calculate_ssb_tenure_rates is meant for: one coupon a year of
\* the ten years, none below the one before
ValidCoupons(coupons) ==
    /\ Len(coupons) = SsbMonths \div MonthsPerYear
    /\ \A i, j \in 1..Len(coupons) : i < j => coupons[i] <= coupons[j]

(***************************************************************************)
(* C25.  calculate_ssb_tenure_rates raises ValueError when the coupon list *)
(* does not hold exactly ten coupons or is not monotonically               *)
(* non-decreasing; for a valid list it returns exactly 120 rows whose      *)
(* Tenure runs from 1 to 120 in order.                                     *)
(***************************************************************************)
C25_SsbRatesRejectInvalidCoupons ==
    CallEnded("calculate_ssb_tenure_rates") =>
        IF ValidCoupons(call.coupons)
        THEN /\ call.pc = "returned"
             /\ Len(call.result) = SsbMonths
             /\ \A t \in 1..Len(call.result) : call.result[t].Tenure = t
        ELSE call.pc = "raised_ValueError"

(***************************************************************************)
(* C26.  sudden_6m_tbill_yield_change_warning issues a warning exactly     *)
(* when the difference between bid yield and cutoff yield, in basis        *)
(* points and whatever its sign, is strictly above the threshold; at a     *)
(* difference equal to the threshold it issues none.                       *)
(***************************************************************************)
C26_WarningOnlyAboveThreshold ==
    CallEnded("sudden_6m_tbill_yield_change_warning") =>
        (call.warnings # <<>>
            <=> \/ call.bid_yield - call.cutoff_yield > call.threshold
                \/ call.cutoff_yield - call.bid_yield > call.threshold)

\* the rows of the target tenure whose lower bound is above the upper bound
InvertedRows ==
    {j \in MatchingRows : df[j].Deposit_lower_bound > df[j].Deposit_upper_bound}

\* nothing allocated: every amount, selection and multiple count is 0
NothingAllocated(p) ==
    Assignment(p, [id \in p.invest |-> 0], [id \in p.invest |-> 0])

(***************************************************************************)
(* C27.  With a row of the target tenure and a total investment that is    *)
(* not negative, allocating nothing satisfies every constraint of the      *)
(* problem, so the solve ends Optimal and the call never raises the        *)
(* optimization-failed error; a row whose lower bound is above its upper   *)
(* bound is part of such a problem and receives no allocation.             *)
(***************************************************************************)
C27_NothingAllocatedIsFeasible ==
    (MatchingRows # {} /\ total_investment >= 0) =>
        /\ pc # "raised_failed"
        /\ pc \in {"built", "solved", "done"} =>
              \A c \in prob.constraints : Holds(c, NothingAllocated(prob))
        /\ pc \in {"solved", "done"} =>
              /\ status = "Optimal"
              /\ \A j \in InvertedRows : values.invest[investment_id(df[j])] = 0
        /\ pc = "done" =>
              \A k \in 1..Len(allocation_records) :
                  allocation_records[k].Deposit_lower_bound
                      <= allocation_records[k].Deposit_upper_bound

\* a plan was returned for a catalogue with a row of inverted bounds, and the
\* money went to the other row
C27_Witness ==
    /\ pc = "done"
    /\ total_investment >= 0
    /\ InvertedRows # {}
    /\ status = "Optimal"
    /\ allocation_records # <<>>

(***************************************************************************)
(* C28.  Every row of the target tenure has its own amount variable and    *)
(* its own selection indicator: no two distinct rows share a decision      *)
(* variable, rows that are identical or whose identifier strings agree     *)
(* included, so no solved amount is reported in two records.               *)
(***************************************************************************)
C28_EachRowHasItsOwnVariables ==
    /\ pc \in {"built", "solved", "done"} =>
          /\ \A j, k \in 1..Len(fdf) :
                j # k => fdf[j].investment_id # fdf[k].investment_id
          /\ Cardinality(prob.invest) = Len(fdf)
    /\ pc = "done" =>
          /\ Len(allocation_records) <= Cardinality({id \in prob.invest : values.invest[id] > 0})
          /\ total_allocated = SumOver(values.invest, prob.invest)

\* best_returns has returned for the catalogue and the amount of the plan
BestReturnsOfPlan ==
    /\ pc = "done"
    /\ CallEnded("best_returns")
    /\ call.pc = "returned"
    /\ call.combined_df = df
    /\ call.investment_amount = total_investment

(***************************************************************************)
(* C29.  Spreading is never worse than the best single product: when       *)
(* best_returns has a row for the target tenure, the total_return of the   *)
(* plan of get_optimal_allocation for the same catalogue and amount is at  *)
(* least that row's Total Dollar Return.                                   *)
(***************************************************************************)
C29_PlanNotWorseThanBestSingleRow ==
    BestReturnsOfPlan =>
        \A i \in 1..Len(call.result) :
            call.result[i].Tenure = target_tenure
                => summary.total_return >= call.result[i].Total_Dollar_Return

\* the columns of a catalogue row
CatalogueColumns == DOMAIN Row("", "", 0, 0, 0, 0, {})

\* the rows of a table have the catalogue's columns and no other
OnlyCatalogueColumns(rows) ==
    \A j \in 1..Len(rows) : DOMAIN rows[j] = CatalogueColumns

(***************************************************************************)
(* C30.  get_optimal_allocation, filter_df, best_returns and best_rates    *)
(* leave the catalogue of their caller as it was, whether they return or   *)
(* raise: no step changes it, and no working column (investment_id,        *)
(* Invested amount, Total Dollar Return) appears in it.                    *)
(***************************************************************************)
C30_CatalogueLeftUnchanged ==
    /\ [](OnlyCatalogueColumns(df) /\ OnlyCatalogueColumns(call.combined_df))
    /\ [][df' = df /\ call'.combined_df = call.combined_df]_vars

\* both functions are through, one returned and one raised or returned, the
\* working columns are in their own tables, and the catalogue is without them
C30_Witness ==
    /\ pc = "done"
    /\ \E j \in 1..Len(fdf) : "investment_id" \in DOMAIN fdf[j]
    /\ CallEnded("best_returns")
    /\ call.pc = "returned"
    /\ \E i \in 1..Len(call.result) : "Invested_amount" \in DOMAIN call.result[i]
    /\ call.combined_df = df
    /\ OnlyCatalogueColumns(df)

====
